---- MODULE Spec2Model ----
(***************************************************************************)
(* Full-load migration engine of transferdb (oracle -> mysql):             *)
(* Migrate.Full, Migrate.fullPartSyncTable, Migrate.fullWaitSyncTable and  *)
(* Migrate.initWaitSyncTableRowID of module/migrate/o2m/full.go, over the  *)
(* two metadata tables wait_sync_meta (WaitSync) and full_sync_meta        *)
(* (FullSync) and the destination tables.                                  *)
(*                                                                         *)
(* A behaviour is a sequence of runs of Full().  A run ends by returning   *)
(* (pc = "done" with a result) or by a crash of the process, which loses   *)
(* every local variable and goroutine and keeps the metadata store and the *)
(* destination exactly as the last completed write left them.              *)
(***************************************************************************)
EXTENDS Integers, FiniteSets, Sequences, TLC

\* ------------------------------------------------------------------ bounds
MaxRuns == 2        \* runs of Full() in one behaviour
MaxChunks == 2      \* row-id chunks the source returns for a table with rows
MaxBatches == 2     \* insert batches extracted from one row-id chunk
MaxSCN == 2         \* largest snapshot id the source issues
MaxThreads == 2     \* largest value of table-threads, sql-threads and task-threads
MaxFaults == 1      \* calls the metadata store rejects in one behaviour
MaxRows == 3        \* rows of a result set GetOracleTableRowsData reads
MaxBatchSize == 2   \* largest insertBatchSize
MaxColumns == 2     \* columns of a table adjustTableSelectColumn projects
MaxScale == 7       \* largest DATA_SCALE of a TIMESTAMP column

\* --------------------------------------------------------- program constants
TaskTableDefaultSourceGlobalSCN == 0
TaskTableDefaultSplitChunkNums == 0

TaskStatusWaiting == "WAITING"
TaskStatusRunning == "RUNNING"
TaskStatusSuccess == "SUCCESS"
TaskStatusFailed == "FAILED"
\* Go zero value of a string field that a struct literal does not set
ZeroString == ""
Absent == "ABSENT"

\* ------------------------------------------------------------- the universe
Tables == {"A", "B"}
\* chunk_predicate: 0 is '1 = 1', k >= 1 is the k-th ROWID BETWEEN predicate
WholeTable == 0
Chunks == 0 .. MaxChunks
\* iteration order of a []string of table names
TableOrd(t) == IF t = "A" THEN 1 ELSE 2
First(S) == CHOOSE t \in S : \A u \in S : TableOrd(t) <= TableOrd(u)

\* table_name_rule rows of the metadata store: source table -> target table
TableNameRule == [t \in {"A"} |-> "A2"]

\* The source: table statistics and the row-id chunk list of a table.
\* "A" yields MaxChunks row-id chunks; "B" is a small table, either its statistic
\* is 0 or its chunk list is empty.
RowsByStatistics(t) == IF t = "A" THEN {1} ELSE {0, 1}
RowIDChunks(t) == IF t = "A" THEN 1 .. MaxChunks ELSE {}
\* number of batches GetOracleTableRowsData returns for a chunk
Batches(t) == IF t = "A" THEN MaxBatches ELSE 1
\* the chunks the Chunker creates for a table
SourceChunks(t) == IF RowIDChunks(t) = {} THEN {WholeTable} ELSE RowIDChunks(t)

AbsentWait == [status |-> Absent, scn |-> 0, total |-> 0, succ |-> 0, failed |-> 0]
AbsentFull == [status |-> Absent, scn |-> 0, target |-> ""]

VARIABLES
    waitSync,       \* wait_sync_meta: table -> row
    fullSync,       \* full_sync_meta: table -> chunk -> row
    applied,        \* destination: batches of chunk (t, c) present in table Target(t)
    oracleSCN,      \* current SCN of the source
    runs,           \* runs of Full() started so far
    pc,             \* position of Full()
    result,         \* how the last run ended
    exporters,      \* configured table set of the run
    cp,             \* enable_checkpoint of the run
    todo,           \* tables a planner loop still has to visit
    wstep,          \* position inside one iteration of the wipe loop
    waitSyncTables, \* Full: waitSyncTables
    partSyncTables, \* Full: partSyncTables
    globalSCN,      \* initWaitSyncTableRowID: globalSCN
    driving,        \* fullPartSyncTable: fullPartTables
    kpc,            \* Chunker goroutine of a table
    tpc,            \* per-table goroutine of fullPartSyncTable
    fullMetas,      \* per-table goroutine: fullMetas (chunks loaded as WAITING)
    cpc,            \* chunk goroutine of (table, chunk)
    cdone,          \* chunk goroutine: batches applied so far
    threads,        \* Cfg.FullConfig: table-threads, sql-threads, task-threads
    faults,         \* calls the metadata store has rejected so far
    chunkTask,      \* source: the DBMS_PARALLEL_EXECUTE task of a table
    ctx,            \* Migrate.Ctx, Oracle.Ctx: the context of the run, live or cancelled
    outcome,        \* what extracting and applying a chunk comes to, where it is fixed
    \* Oracle.GetOracleTableRowsData
    resultSet,      \* rows: the rows the query returns, in source order
    columnTypes,    \* columnTypes: ScanType of every column
    insertBatchSize,
    cursor,         \* rows consumed by rows.Next
    rowsResult,     \* literals of the row being encoded
    rowsTMP,        \* row tuples of the batch being filled
    batchResults,   \* batches completed
    rdpc,           \* position of GetOracleTableRowsData
    \* Migrate.adjustTableSelectColumn
    columnsINFO,    \* columns of the source table
    columnNames,    \* projection fragments built so far
    spc,            \* position of adjustTableSelectColumn
    \* history of the runs, read by the properties only
    prev,           \* how the previous run ended and what it was configured with
    run             \* what the current run has done so far

vars == << waitSync, fullSync, applied, oracleSCN, runs, pc, result, exporters, cp,
           todo, wstep, waitSyncTables, partSyncTables, globalSCN, driving,
           kpc, tpc, fullMetas, cpc, cdone, threads, faults, chunkTask, ctx,
           outcome, resultSet, columnTypes, insertBatchSize, cursor, rowsResult, rowsTMP,
           batchResults, rdpc, columnsINFO, columnNames, spc, prev, run >>

meta == << waitSync, fullSync >>
locals == << todo, wstep, waitSyncTables, partSyncTables, globalSCN, driving,
             kpc, tpc, fullMetas, cpc, cdone >>
reader == << resultSet, columnTypes, insertBatchSize, cursor, rowsResult, rowsTMP,
            batchResults, rdpc >>
selector == << columnsINFO, columnNames, spc >>
\* the configuration of a run, and the functions that no step of Full() calls here
settings == << exporters, cp, runs, prev, threads, ctx, outcome, reader, selector >>
\* what most steps of a run leave alone
config == << settings, faults, chunkTask >>

\* Cfg.FullConfig.TableThreads, SQLThreads and TaskThreads
TableThreads == threads.table
SQLThreads == threads.sql
TaskThreads == threads.task
\* the thread settings a run is started with: every limit 1 (serial) up to every
\* limit MaxThreads
ThreadConfigs == {[table |-> n, sql |-> n, task |-> n] : n \in 1 .. MaxThreads}
\* a group that admits one goroutine more than its limit
SlotFreeOneMore(n, limit) == n <= limit
\* errgroup.Group.SetLimit(limit): Go blocks while limit goroutines are active
SlotFree(n, limit) == n < limit

NoTasks == [t \in Tables |-> "none"]
NoChunkTasks == [t \in Tables |-> [c \in Chunks |-> "none"]]
NoMetas == [t \in Tables |-> {}]
NoBatches == [t \in Tables |-> [c \in Chunks |-> 0]]

FreshRun == [wrote |-> FALSE, applied |-> FALSE, truncated |-> {}, created |-> FALSE,
             chunkErr |-> FALSE, reads |-> {}, stale |-> {}, staleFull |-> {},
             inDrive |-> FALSE]
NoPrev == [end |-> "none", cp |-> FALSE, exporters |-> {}, chunkErr |-> FALSE,
           inDrive |-> FALSE]

\* no call of GetOracleTableRowsData is in progress
ReaderIdle ==
    /\ resultSet = << >>
    /\ columnTypes = << >>
    /\ insertBatchSize = 1
    /\ cursor = 0
    /\ rowsResult = << >>
    /\ rowsTMP = << >>
    /\ batchResults = << >>
    /\ rdpc = "idle"
\* no call of adjustTableSelectColumn is in progress
SelectorIdle ==
    /\ columnsINFO = << >>
    /\ columnNames = << >>
    /\ spc = "idle"

EngineInit ==
    /\ waitSync = [t \in Tables |-> AbsentWait]
    /\ fullSync = [t \in Tables |-> [c \in Chunks |-> AbsentFull]]
    /\ applied = NoBatches
    /\ oracleSCN = 0
    /\ runs = 0
    /\ pc = "idle"
    /\ result = "none"
    /\ exporters = {}
    /\ cp = FALSE
    /\ todo = {}
    /\ wstep = "none"
    /\ waitSyncTables = {}
    /\ partSyncTables = {}
    /\ globalSCN = 0
    /\ driving = {}
    /\ kpc = NoTasks
    /\ tpc = NoTasks
    /\ fullMetas = NoMetas
    /\ cpc = NoChunkTasks
    /\ cdone = NoBatches
    /\ threads = [table |-> 1, sql |-> 1, task |-> 1]
    /\ faults = 0
    /\ chunkTask = [t \in Tables |-> "none"]
    /\ ctx = "live"
    /\ prev = NoPrev
    /\ run = FreshRun

\* the outcome of a chunk is left open: it is chosen when the chunk is worked on
OutcomeFree == outcome = [t \in Tables |-> [c \in Chunks |-> "any"]]

Init == EngineInit /\ OutcomeFree /\ ReaderIdle /\ SelectorIdle

\* ------------------------------------------------------ metadata store (meta)
HasWait(t) == waitSync[t].status # Absent
FullRows(t) == {c \in Chunks : fullSync[t][c].status # Absent}
FullRowsByStatus(t, s) == {c \in Chunks : fullSync[t][c].status = s}

\* WaitSyncMeta.DetailWaitSyncMetaSuccessTables
DetailWaitSyncMetaSuccessTables == {t \in Tables : waitSync[t].status = TaskStatusSuccess}
\* WaitSyncMeta.CountsErrWaitSyncMetaBySchema
CountsErrWaitSyncMetaBySchema == Cardinality({t \in Tables : waitSync[t].status = TaskStatusFailed})
\* WaitSyncMeta.DetailWaitSyncMeta with status, snapshot and chunk_total given
DetailWaitSyncMetaWaiting ==
    {t \in Tables : /\ waitSync[t].status = TaskStatusWaiting
                    /\ waitSync[t].scn = TaskTableDefaultSourceGlobalSCN
                    /\ waitSync[t].total = TaskTableDefaultSplitChunkNums}
\* WaitSyncMeta.QueryWaitSyncMetaByPartTask
QueryWaitSyncMetaByPartTask == {t \in Tables : waitSync[t].status = TaskStatusRunning}
\* FullSyncMeta.DistinctFullSyncMetaTableNameSByTaskStatus
DistinctFullSyncMetaTableNameSByTaskStatus(s) == {t \in Tables : FullRowsByStatus(t, s) # {}}
\* FullSyncMeta.CountsFullSyncMetaByTaskTable
CountsFullSyncMetaByTaskTable(t) == Cardinality(FullRows(t))
\* FullSyncMeta.DetailFullSyncMeta with a status given
DetailFullSyncMeta(t, s) == FullRowsByStatus(t, s)
\* FullSyncMeta.CountsErrorFullSyncMeta
CountsErrorFullSyncMeta(t) == Cardinality(FullRowsByStatus(t, TaskStatusFailed))
\* WaitSyncMeta.UpdateWaitSyncMeta: an UPDATE ... WHERE key, no row no change
UpdateWaitSyncMeta(ws, t, patch) ==
    IF ws[t].status = Absent THEN ws
    ELSE [ws EXCEPT ![t] = [f \in DOMAIN ws[t] |->
                              IF f \in DOMAIN patch THEN patch[f] ELSE ws[t][f]]]
\* FullSyncMeta.UpdateFullSyncMeta
UpdateFullSyncMeta(fs, t, c, s) ==
    IF fs[t][c].status = Absent THEN fs ELSE [fs EXCEPT ![t][c].status = s]

\* initWaitSyncTableRowID: targetTableName, by the table-name rule or the source name
TargetTableName(t) == IF t \in DOMAIN TableNameRule THEN TableNameRule[t] ELSE t
\* MySQL.TruncateMySQLTable(schema, tableName): empties the destination table `name`
TruncateMySQLTable(ap, name) ==
    [t \in Tables |-> IF TargetTableName(t) = name THEN [c \in Chunks |-> 0] ELSE ap[t]]

\* --------------------------------------------------------------- Planner
\* A run of Full() starts: the configuration of the run is read.
StartFull(e, c, th) ==
    /\ pc \in {"idle", "done"}
    /\ runs < MaxRuns
    /\ runs' = runs + 1
    /\ exporters' = e
    /\ cp' = c
    /\ threads' = th
    /\ prev' = [end |-> result, cp |-> cp, exporters |-> exporters,
                chunkErr |-> run.chunkErr, inDrive |-> run.inDrive]
    /\ run' = [FreshRun EXCEPT !.stale = {t \in Tables : HasWait(t)},
                              !.staleFull = {t \in Tables : FullRows(t) # {}}]
    /\ oracleSCN' = IF oracleSCN < MaxSCN THEN oracleSCN + 1 ELSE oracleSCN
    /\ pc' = "clear"
    /\ result' = "none"
    /\ todo' = {}
    /\ wstep' = "none"
    /\ waitSyncTables' = {}
    /\ partSyncTables' = {}
    /\ globalSCN' = 0
    /\ driving' = {}
    /\ kpc' = NoTasks
    /\ tpc' = NoTasks
    /\ fullMetas' = NoMetas
    /\ cpc' = NoChunkTasks
    /\ cdone' = NoBatches
    /\ UNCHANGED << meta, applied, faults, chunkTask, ctx, outcome, reader, selector >>

\* every row of a table that is not configured, whatever its status
ClearAnyTables == {t \in Tables : HasWait(t)} \ exporters
\* Full: clearTables, the SUCCESS rows of tables that are not configured
ClearTables == DetailWaitSyncMetaSuccessTables \ exporters

\* Full, lines 88-119: delete the SUCCESS rows of tables outside the configured set
ClearSuccess ==
    /\ pc = "clear"
    /\ IF ClearTables # {}
          THEN /\ waitSync' = [t \in Tables |-> IF t \in ClearTables THEN AbsentWait
                                                                     ELSE waitSync[t]]
               /\ run' = [run EXCEPT !.wrote = TRUE, !.stale = @ \ ClearTables]
          ELSE UNCHANGED << waitSync, run >>
    /\ pc' = "gate"
    /\ UNCHANGED << fullSync, applied, oracleSCN, result, locals, config >>

\* Full, lines 121-131: abort when a WaitSync row of the schema is FAILED
GateClosed == CountsErrWaitSyncMetaBySchema > 0

Gate ==
    /\ pc = "gate"
    /\ IF GateClosed
          THEN /\ pc' = "done"
               /\ result' = "gate"
               /\ todo' = todo
          ELSE /\ pc' = "register"
               /\ result' = result
               /\ todo' = exporters
    /\ UNCHANGED << meta, applied, oracleSCN, wstep, waitSyncTables, partSyncTables,
                    globalSCN, driving, kpc, tpc, fullMetas, cpc, cdone, config, run >>

\* a WaitSync row created anew for a table that is SUCCESS
NeedCreateAfterSuccess(row) == row.status \in {Absent, TaskStatusSuccess}
\* Full, line 145: a WaitSync row is created only for a table that has none
NeedCreateWaitSync(row) == row.status = Absent
\* Full, lines 146-155: the row the register loop creates
RegisterRow ==
    [status |-> TaskStatusWaiting, scn |-> TaskTableDefaultSourceGlobalSCN,
     total |-> TaskTableDefaultSplitChunkNums, succ |-> 0, failed |-> 0]
\* the wipe taken whatever enable_checkpoint says
WipeAlways(c) == TRUE
\* Full, line 165: the wipe runs when enable_checkpoint is off
WipeEnabled(c) == ~c
\* Full, lines 203-211: the row the wipe loop creates; TaskStatus is not set
WipeRow ==
    [status |-> ZeroString, scn |-> TaskTableDefaultSourceGlobalSCN,
     total |-> TaskTableDefaultSplitChunkNums, succ |-> 0, failed |-> 0]

\* Full, lines 133-160: one iteration of the register loop
RegisterTable ==
    /\ pc = "register"
    /\ todo # {}
    /\ LET t == First(todo) IN
         /\ IF NeedCreateWaitSync(waitSync[t])
               THEN /\ waitSync' = [waitSync EXCEPT ![t] = RegisterRow]
                    /\ run' = [run EXCEPT !.wrote = TRUE, !.stale = @ \ {t}]
               ELSE UNCHANGED << waitSync, run >>
         /\ todo' = todo \ {t}
         /\ pc' = IF todo' # {} THEN "register"
                  ELSE IF WipeEnabled(cp) THEN "wipe" ELSE "plan"
    /\ UNCHANGED << fullSync, applied, oracleSCN, result, wstep, waitSyncTables,
                    partSyncTables, globalSCN, driving, kpc, tpc, fullMetas, cpc, cdone,
                    config >>

\* Full, lines 166-175: DeleteFullSyncMetaBySchemaSyncMode
WipeDeleteFull ==
    /\ pc = "wipe"
    /\ fullSync' = [t \in Tables |-> [c \in Chunks |-> AbsentFull]]
    /\ run' = [run EXCEPT !.wrote = TRUE, !.staleFull = {}]
    /\ todo' = exporters
    /\ wstep' = "delete"
    /\ pc' = "wipeTables"
    /\ UNCHANGED << waitSync, applied, oracleSCN, result, waitSyncTables, partSyncTables,
                    globalSCN, driving, kpc, tpc, fullMetas, cpc, cdone, config >>

\* Full, lines 177-186: DeleteWaitSyncMeta of the table of this iteration
WipeDeleteWait ==
    /\ pc = "wipeTables"
    /\ wstep = "delete"
    /\ LET t == First(todo) IN
         /\ waitSync' = [waitSync EXCEPT ![t] = AbsentWait]
         /\ run' = [run EXCEPT !.wrote = TRUE, !.stale = @ \ {t}]
    /\ wstep' = "truncate"
    /\ UNCHANGED << fullSync, applied, oracleSCN, pc, result, todo, waitSyncTables,
                    partSyncTables, globalSCN, driving, kpc, tpc, fullMetas, cpc, cdone,
                    config >>

\* Full, line 188: the destination table the wipe truncates is named by the
\* source table name of the iteration
WipeTruncateName(t) == t

\* Full, lines 187-190: TruncateMySQLTable
WipeTruncate ==
    /\ pc = "wipeTables"
    /\ wstep = "truncate"
    /\ LET t == First(todo) IN
         /\ applied' = TruncateMySQLTable(applied, WipeTruncateName(t))
         /\ run' = [run EXCEPT !.wrote = TRUE, !.truncated = @ \cup {WipeTruncateName(t)}]
    /\ wstep' = "create"
    /\ UNCHANGED << meta, oracleSCN, pc, result, todo, waitSyncTables, partSyncTables,
                    globalSCN, driving, kpc, tpc, fullMetas, cpc, cdone, config >>

\* Full, lines 191-215: re-create the WaitSync row of the table of this iteration
WipeCreate ==
    /\ pc = "wipeTables"
    /\ wstep = "create"
    /\ LET t == First(todo) IN
         /\ IF NeedCreateWaitSync(waitSync[t])
               THEN /\ waitSync' = [waitSync EXCEPT ![t] = WipeRow]
                    /\ run' = [run EXCEPT !.wrote = TRUE]
               ELSE UNCHANGED << waitSync, run >>
         /\ todo' = todo \ {t}
    /\ wstep' = IF todo' # {} THEN "delete" ELSE "none"
    /\ pc' = IF todo' # {} THEN "wipeTables" ELSE "plan"
    /\ UNCHANGED << fullSync, applied, oracleSCN, result, waitSyncTables, partSyncTables,
                    globalSCN, driving, kpc, tpc, fullMetas, cpc, cdone, config >>

\* Full, lines 276-294: panicTblFullSlice
PanicTables ==
    {t \in QueryWaitSyncMetaByPartTask :
        \/ t \notin DistinctFullSyncMetaTableNameSByTaskStatus(TaskStatusWaiting)
        \/ CountsFullSyncMetaByTaskTable(t) # waitSync[t].total}
\* the check of the checkpoint left out
CheckpointNotChecked == FALSE
\* Full, line 296: the checkpoint cannot be resumed
CheckpointInconsistent ==
    \/ PanicTables # {}
    \/ Cardinality(QueryWaitSyncMetaByPartTask)
          # Cardinality(DistinctFullSyncMetaTableNameSByTaskStatus(TaskStatusWaiting))

Queued(S) == [t \in Tables |-> IF t \in S THEN "queued" ELSE "none"]

\* Full, lines 219-321: select the wait and part tables, check the checkpoint and
\* enter the drive phase
Plan ==
    /\ pc = "plan"
    /\ waitSyncTables' = DetailWaitSyncMetaWaiting
    /\ partSyncTables' = QueryWaitSyncMetaByPartTask
    /\ IF CheckpointInconsistent
          THEN /\ pc' = "done"
               /\ result' = "inconsistent"
               /\ UNCHANGED << driving, tpc >>
          ELSE IF partSyncTables' # {}
                 THEN /\ pc' = "part"
                      /\ driving' = partSyncTables'
                      /\ tpc' = Queued(partSyncTables')
                      /\ result' = result
                 ELSE IF waitSyncTables' # {}
                        THEN /\ pc' = "chunkerInit"
                             /\ UNCHANGED << driving, tpc, result >>
                        ELSE /\ pc' = "done"
                             /\ result' = "ok"
                             /\ UNCHANGED << driving, tpc >>
    /\ UNCHANGED << meta, applied, oracleSCN, todo, wstep, globalSCN, kpc, fullMetas,
                    cpc, cdone, config, run >>

\* --------------------------------------------------------------- Chunker
\* initWaitSyncTableRowID, lines 722-738: the snapshot id stamped on a FullSync row
ChunkSCN(g) == g
\* a FullSync row created in RUNNING
NewFullSyncRowRunning(t, g) ==
    [status |-> TaskStatusRunning, scn |-> ChunkSCN(g), target |-> TargetTableName(t)]
\* initWaitSyncTableRowID, lines 630-642, 690-702, 724-737: a new FullSync row
NewFullSyncRow(t, g) ==
    [status |-> TaskStatusWaiting, scn |-> ChunkSCN(g), target |-> TargetTableName(t)]
\* the WaitSync patch without the snapshot id
WaitSyncPatchNoSCN(g, n) == [total |-> n, succ |-> 0, failed |-> 0]
\* initWaitSyncTableRowID, lines 643-654, 703-714, 753-759: the WaitSync patch
WaitSyncPatch(g, n) == [scn |-> g, total |-> n, succ |-> 0, failed |-> 0]

\* Common.CreateFullSyncMetaAndUpdateWaitSyncMeta: one transaction
CreateFullSyncMetaAndUpdateWaitSyncMeta(t, c, row, patch) ==
    /\ fullSync' = [fullSync EXCEPT ![t][c] = row]
    /\ waitSync' = UpdateWaitSyncMeta(waitSync, t, patch)

ActiveChunkers == {t \in Tables : kpc[t] \in {"task", "inserted"}}

\* StartOracleChunkCreateTask, lines 41-50: the old task is dropped when
\* user_parallel_execute_chunks holds chunk rows under the task name
NeedCloseTask(task) == task = "chunked"
\* StartOracleChunkCreateTask, lines 52-59: CREATE_TASK returns an error when a task of
\* that name exists
CreateTaskFails(task) == task # "none" /\ ~NeedCloseTask(task)
\* StartOracleCreateChunkByRowID and GetOracleTableChunksByRowID: the task after
\* CREATE_CHUNKS_BY_ROWID, with or without chunk rows
ChunkedTask(t) == IF RowIDChunks(t) = {} THEN "created" ELSE "chunked"

\* initWaitSyncTableRowID, lines 569-593: table-name rule, snapshot, one task per table
ChunkerBegin ==
    /\ pc = "chunkerInit"
    /\ globalSCN' = oracleSCN
    /\ kpc' = Queued(waitSyncTables)
    /\ pc' = "chunker"
    /\ UNCHANGED << meta, applied, oracleSCN, result, todo, wstep, waitSyncTables,
                    partSyncTables, driving, tpc, fullMetas, cpc, cdone, config, run >>

\* initWaitSyncTableRowID, lines 617-659: row statistic 0, one chunk '1 = 1'
ChunkerSingle(t) ==
    /\ pc = "chunker"
    /\ kpc[t] = "queued"
    /\ SlotFree(Cardinality(ActiveChunkers), TaskThreads)
    /\ 0 \in RowsByStatistics(t)
    /\ CreateFullSyncMetaAndUpdateWaitSyncMeta(t, WholeTable, NewFullSyncRow(t, globalSCN),
                                               WaitSyncPatch(globalSCN, 1))
    /\ run' = [run EXCEPT !.wrote = TRUE, !.created = TRUE]
    /\ kpc' = [kpc EXCEPT ![t] = "done"]
    /\ UNCHANGED << applied, oracleSCN, pc, result, todo, wstep, waitSyncTables,
                    partSyncTables, globalSCN, driving, tpc, fullMetas, cpc, cdone,
                    config >>

\* initWaitSyncTableRowID, lines 666-679: create the chunk task, create the chunks by
\* row id and fetch the chunk list
ChunkerStartTask(t) ==
    /\ pc = "chunker"
    /\ kpc[t] = "queued"
    /\ SlotFree(Cardinality(ActiveChunkers), TaskThreads)
    /\ \E n \in RowsByStatistics(t) : n # 0
    /\ IF CreateTaskFails(chunkTask[t])
          THEN /\ kpc' = [kpc EXCEPT ![t] = "error"]
               /\ chunkTask' = chunkTask
          ELSE /\ kpc' = [kpc EXCEPT ![t] = "task"]
               /\ chunkTask' = [chunkTask EXCEPT ![t] = ChunkedTask(t)]
    /\ UNCHANGED << meta, applied, oracleSCN, pc, result, todo, wstep, waitSyncTables,
                    partSyncTables, globalSCN, driving, tpc, fullMetas, cpc, cdone,
                    settings, faults, run >>

\* initWaitSyncTableRowID, lines 681-720: empty chunk list, one chunk '1 = 1'
ChunkerEmpty(t) ==
    /\ pc = "chunker"
    /\ kpc[t] = "task"
    /\ RowIDChunks(t) = {}
    /\ CreateFullSyncMetaAndUpdateWaitSyncMeta(t, WholeTable, NewFullSyncRow(t, globalSCN),
                                               WaitSyncPatch(globalSCN, 1))
    /\ run' = [run EXCEPT !.wrote = TRUE, !.created = TRUE]
    /\ kpc' = [kpc EXCEPT ![t] = "done"]
    /\ UNCHANGED << applied, oracleSCN, pc, result, todo, wstep, waitSyncTables,
                    partSyncTables, globalSCN, driving, tpc, fullMetas, cpc, cdone,
                    config >>

\* initWaitSyncTableRowID, lines 722-744: BatchCreateFullSyncMeta, one row per chunk
ChunkerBatchCreate(t) ==
    /\ pc = "chunker"
    /\ kpc[t] = "task"
    /\ RowIDChunks(t) # {}
    /\ fullSync' = [fullSync EXCEPT ![t] = [c \in Chunks |->
                       IF c \in RowIDChunks(t) THEN NewFullSyncRow(t, globalSCN)
                                               ELSE fullSync[t][c]]]
    /\ run' = [run EXCEPT !.wrote = TRUE, !.created = TRUE]
    /\ kpc' = [kpc EXCEPT ![t] = "inserted"]
    /\ UNCHANGED << waitSync, applied, oracleSCN, pc, result, todo, wstep, waitSyncTables,
                    partSyncTables, globalSCN, driving, tpc, fullMetas, cpc, cdone,
                    config >>

\* initWaitSyncTableRowID, lines 746-766: UpdateWaitSyncMeta, then the task is dropped
ChunkerUpdateWait(t) ==
    /\ pc = "chunker"
    /\ kpc[t] = "inserted"
    /\ waitSync' = UpdateWaitSyncMeta(waitSync, t,
                       WaitSyncPatch(globalSCN, Cardinality(RowIDChunks(t))))
    /\ run' = [run EXCEPT !.wrote = TRUE]
    /\ chunkTask' = [chunkTask EXCEPT ![t] = "none"]
    /\ kpc' = [kpc EXCEPT ![t] = "done"]
    /\ UNCHANGED << fullSync, applied, oracleSCN, pc, result, todo, wstep, waitSyncTables,
                    partSyncTables, globalSCN, driving, tpc, fullMetas, cpc, cdone,
                    settings, faults >>

\* initWaitSyncTableRowID, lines 777-784 and fullWaitSyncTable, lines 556-567:
\* every Chunker task has returned; an error is returned by Full, else the wait tables
\* are driven
ChunkerDone ==
    /\ pc = "chunker"
    /\ \A t \in waitSyncTables : kpc[t] \in {"done", "error"}
    /\ IF \E t \in waitSyncTables : kpc[t] = "error"
          THEN /\ pc' = "done"
               /\ result' = "error"
               /\ UNCHANGED << driving, tpc >>
          ELSE /\ pc' = "drive"
               /\ result' = result
               /\ driving' = waitSyncTables
               /\ tpc' = [t \in Tables |-> IF t \in waitSyncTables THEN "queued" ELSE tpc[t]]
    /\ UNCHANGED << meta, applied, oracleSCN, todo, wstep, waitSyncTables,
                    partSyncTables, globalSCN, kpc, fullMetas, cpc, cdone, config, run >>

\* ------------------------------------------------------------ Orchestrator
Driving == pc \in {"part", "drive"}
RunningTables == {t \in Tables : tpc[t] = "running"}
ActiveChunks(t) == {c \in Chunks : cpc[t][c] = "apply"}

\* a call of the metadata store returns an error
MetaFails == faults < MaxFaults
\* a goroutine of a group has returned, with nil or with an error
TaskReturned(s) == s \in {"done", "error"}

\* the chunk list loaded without the TaskStatus filter
LoadAllFullMetas(t) == FullRows(t)
\* fullPartSyncTable, lines 378-388: the chunks a table task loads
LoadFullMetas(t) == DetailFullSyncMeta(t, TaskStatusWaiting)

\* fullPartSyncTable, lines 363-394: set the table RUNNING, load its WAITING chunks and
\* hand one task per chunk to the inner group
TableStart(t) ==
    /\ Driving
    /\ tpc[t] = "queued"
    /\ SlotFree(Cardinality(RunningTables), TableThreads)
    /\ waitSync' = UpdateWaitSyncMeta(waitSync, t, [status |-> TaskStatusRunning])
    /\ fullMetas' = [fullMetas EXCEPT ![t] = LoadFullMetas(t)]
    /\ cpc' = [cpc EXCEPT ![t] = [c \in Chunks |->
                  IF c \in LoadFullMetas(t) THEN "queued" ELSE "none"]]
    /\ cdone' = [cdone EXCEPT ![t] = [c \in Chunks |-> 0]]
    /\ tpc' = [tpc EXCEPT ![t] = "running"]
    /\ run' = [run EXCEPT !.wrote = TRUE]
    /\ UNCHANGED << fullSync, applied, oracleSCN, pc, result, todo, wstep, waitSyncTables,
                    partSyncTables, globalSCN, driving, kpc, config >>

\* fullPartSyncTable, lines 365-388: UpdateWaitSyncMeta to RUNNING fails, or the update
\* is written and DetailFullSyncMeta fails; the table task returns the error
TableStartFail(t) ==
    /\ Driving
    /\ tpc[t] = "queued"
    /\ SlotFree(Cardinality(RunningTables), TableThreads)
    /\ MetaFails
    /\ faults' = faults + 1
    /\ \E written \in BOOLEAN :
         IF written
           THEN /\ waitSync' = UpdateWaitSyncMeta(waitSync, t, [status |-> TaskStatusRunning])
                /\ run' = [run EXCEPT !.wrote = TRUE]
           ELSE UNCHANGED << waitSync, run >>
    /\ tpc' = [tpc EXCEPT ![t] = "error"]
    /\ UNCHANGED << fullSync, applied, oracleSCN, pc, result, todo, wstep, waitSyncTables,
                    partSyncTables, globalSCN, driving, kpc, fullMetas, cpc, cdone,
                    settings, chunkTask >>

\* fullPartSyncTable, lines 394-397: IExtractor reads the chunk AS OF its snapshot id
ChunkExtract(t, c) ==
    /\ Driving
    /\ cpc[t][c] = "queued"
    /\ SlotFree(Cardinality(ActiveChunks(t)), SQLThreads)
    /\ cpc' = [cpc EXCEPT ![t][c] = "apply"]
    /\ run' = [run EXCEPT !.reads = @ \cup {fullSync[t][c].scn}]
    /\ UNCHANGED << meta, applied, oracleSCN, pc, result, todo, wstep, waitSyncTables,
                    partSyncTables, globalSCN, driving, kpc, tpc, fullMetas, cdone,
                    config >>

\* fullPartSyncTable, line 437: IApplier inserts the next batch into the target table
ChunkApply(t, c) ==
    /\ Driving
    /\ cpc[t][c] = "apply"
    /\ cdone[t][c] < Batches(t)
    /\ applied' = [applied EXCEPT ![t][c] = @ + 1]
    /\ cdone' = [cdone EXCEPT ![t][c] = @ + 1]
    /\ run' = [run EXCEPT !.wrote = TRUE, !.applied = TRUE]
    /\ UNCHANGED << meta, oracleSCN, pc, result, todo, wstep, waitSyncTables,
                    partSyncTables, globalSCN, driving, kpc, tpc, fullMetas, cpc,
                    config >>

\* fullPartSyncTable, lines 458-470: every batch is applied, the chunk is SUCCESS
ChunkSuccess(t, c) ==
    /\ Driving
    /\ cpc[t][c] = "apply"
    /\ cdone[t][c] = Batches(t)
    /\ fullSync' = UpdateFullSyncMeta(fullSync, t, c, TaskStatusSuccess)
    /\ cpc' = [cpc EXCEPT ![t][c] = "done"]
    /\ run' = [run EXCEPT !.wrote = TRUE]
    /\ UNCHANGED << waitSync, applied, oracleSCN, pc, result, todo, wstep, waitSyncTables,
                    partSyncTables, globalSCN, driving, kpc, tpc, fullMetas, cdone,
                    config >>

\* a chunk task that returns the error of its chunk to the inner group
ChunkFailReturnsErr == "error"
\* fullPartSyncTable, lines 415, 435, 455: the chunk task returns nil after it has
\* recorded the error
ChunkFailReturn == "done"

\* fullPartSyncTable, lines 398-456: extract, translate or apply fails, the chunk is
\* recorded FAILED and the task returns nil
ChunkFail(t, c) ==
    /\ Driving
    /\ \/ cpc[t][c] = "queued" /\ SlotFree(Cardinality(ActiveChunks(t)), SQLThreads)
       \/ cpc[t][c] = "apply" /\ cdone[t][c] < Batches(t)
    /\ fullSync' = UpdateFullSyncMeta(fullSync, t, c, TaskStatusFailed)
    /\ cpc' = [cpc EXCEPT ![t][c] = ChunkFailReturn]
    /\ run' = [run EXCEPT !.wrote = TRUE, !.chunkErr = TRUE]
    /\ UNCHANGED << waitSync, applied, oracleSCN, pc, result, todo, wstep, waitSyncTables,
                    partSyncTables, globalSCN, driving, kpc, tpc, fullMetas, cdone,
                    config >>

\* fullPartSyncTable, lines 400-413, 420-433, 440-453, 458-469: UpdateFullSyncMeta of the
\* chunk fails, the row stays as it is and the chunk task returns the error
ChunkWriteFail(t, c) ==
    /\ Driving
    /\ \/ cpc[t][c] = "queued" /\ SlotFree(Cardinality(ActiveChunks(t)), SQLThreads)
       \/ cpc[t][c] = "apply"
    /\ MetaFails
    /\ faults' = faults + 1
    /\ cpc' = [cpc EXCEPT ![t][c] = "error"]
    /\ run' = [run EXCEPT !.chunkErr = TRUE]
    /\ UNCHANGED << meta, applied, oracleSCN, pc, result, todo, wstep, waitSyncTables,
                    partSyncTables, globalSCN, driving, kpc, tpc, fullMetas, cdone,
                    settings, chunkTask >>

\* the success branch taken with one FAILED chunk left
TableSucceededLoose(totalErrs) == totalErrs <= 1
\* fullPartSyncTable, line 493: the table succeeded when no FullSync row is FAILED
TableSucceeded(totalErrs) == totalErrs = 0
\* the patch of a table without failures that counts no chunk
SuccessPatchNoCount(n) == [status |-> TaskStatusSuccess, succ |-> 0, failed |-> 0]
\* fullPartSyncTable, lines 501-510: the WaitSync patch of a table without failures
SuccessPatch(n) == [status |-> TaskStatusSuccess, succ |-> n, failed |-> 0]
\* fullPartSyncTable, lines 526-530: the WaitSync patch of a table with failures
FailedPatch(n, totalErrs) ==
    [status |-> TaskStatusFailed, succ |-> n - totalErrs, failed |-> totalErrs]
\* Common.DeleteTableFullSyncMetaAndUpdateWaitSyncMeta: one transaction
DeleteTableFullSyncMetaAndUpdateWaitSyncMeta(t, patch) ==
    /\ fullSync' = [fullSync EXCEPT ![t] = [c \in Chunks |-> AbsentFull]]
    /\ waitSync' = UpdateWaitSyncMeta(waitSync, t, patch)

\* fullPartSyncTable, lines 474-541: the inner group has returned without error; count
\* the FAILED chunks and write the outcome of the table
TableFinish(t) ==
    /\ Driving
    /\ tpc[t] = "running"
    /\ \A c \in fullMetas[t] : cpc[t][c] = "done"
    /\ LET totalErrs == CountsErrorFullSyncMeta(t)
           n == Cardinality(fullMetas[t]) IN
         IF TableSucceeded(totalErrs)
           THEN DeleteTableFullSyncMetaAndUpdateWaitSyncMeta(t, SuccessPatch(n))
           ELSE /\ waitSync' = UpdateWaitSyncMeta(waitSync, t, FailedPatch(n, totalErrs))
                /\ fullSync' = fullSync
    /\ tpc' = [tpc EXCEPT ![t] = "done"]
    /\ run' = [run EXCEPT !.wrote = TRUE,
                          !.staleFull = {u \in @ : u # t \/ FullRows(t)' # {}}]
    /\ UNCHANGED << applied, oracleSCN, pc, result, todo, wstep, waitSyncTables,
                    partSyncTables, globalSCN, driving, kpc, fullMetas, cpc, cdone,
                    config >>

\* fullPartSyncTable, lines 474-476: g1.Wait returns the error of a chunk task once
\* every chunk task of the table has returned; the table task returns it
TableReturnErr(t) ==
    /\ Driving
    /\ tpc[t] = "running"
    /\ \A c \in fullMetas[t] : TaskReturned(cpc[t][c])
    /\ \E c \in fullMetas[t] : cpc[t][c] = "error"
    /\ tpc' = [tpc EXCEPT ![t] = "error"]
    /\ UNCHANGED << meta, applied, oracleSCN, pc, result, todo, wstep, waitSyncTables,
                    partSyncTables, globalSCN, driving, kpc, fullMetas, cpc, cdone,
                    config, run >>

\* fullPartSyncTable, lines 480-533: CountsErrorFullSyncMeta or the final update of the
\* table fails, nothing is written and the table task returns the error
TableFinishFail(t) ==
    /\ Driving
    /\ tpc[t] = "running"
    /\ \A c \in fullMetas[t] : cpc[t][c] = "done"
    /\ MetaFails
    /\ faults' = faults + 1
    /\ tpc' = [tpc EXCEPT ![t] = "error"]
    /\ UNCHANGED << meta, applied, oracleSCN, pc, result, todo, wstep, waitSyncTables,
                    partSyncTables, globalSCN, driving, kpc, fullMetas, cpc, cdone,
                    settings, chunkTask, run >>

\* the outer group not waited for
GroupNotAwaited(S) == TRUE
\* fullPartSyncTable, line 545: g.Wait returns when every table task has returned
GroupReturned(S) == \A t \in S : TaskReturned(tpc[t])
\* the error of a table task dropped by the outer group
GroupErrorIgnored(S) == FALSE
\* fullPartSyncTable, lines 545-547: g.Wait returns the first error of a table task
GroupError(S) == \E t \in S : tpc[t] = "error"

\* fullPartSyncTable, lines 545-553 and Full, lines 310-353: the outer group has
\* returned; an error is returned by Full; else after the part tables come the wait
\* tables, after those Full returns nil
DriveDone ==
    /\ Driving
    /\ GroupReturned(driving)
    /\ IF GroupError(driving)
          THEN pc' = "done" /\ result' = "error"
          ELSE IF pc = "part" /\ waitSyncTables # {}
                 THEN pc' = "chunkerInit" /\ result' = result
                 ELSE pc' = "done" /\ result' = "ok"
    /\ UNCHANGED << meta, applied, oracleSCN, todo, wstep, waitSyncTables, partSyncTables,
                    globalSCN, driving, kpc, tpc, fullMetas, cpc, cdone, config, run >>

\* ------------------------------------------------------------------ crash
\* a chunk is being extracted or applied
InDrive == \E t \in Tables : \E c \in Chunks : cpc[t][c] \in {"queued", "apply"}

\* The process is killed: every local and every goroutine is lost.
Crash ==
    /\ pc \notin {"idle", "done"}
    /\ pc' = "done"
    /\ result' = "crash"
    /\ run' = [run EXCEPT !.inDrive = InDrive]
    /\ todo' = {}
    /\ wstep' = "none"
    /\ waitSyncTables' = {}
    /\ partSyncTables' = {}
    /\ globalSCN' = 0
    /\ driving' = {}
    /\ kpc' = NoTasks
    /\ tpc' = NoTasks
    /\ fullMetas' = NoMetas
    /\ cpc' = NoChunkTasks
    /\ cdone' = NoBatches
    /\ UNCHANGED << meta, applied, oracleSCN, config >>

Next ==
    \/ \E e \in (SUBSET Tables) \ {{}} : \E c \in BOOLEAN : \E th \in ThreadConfigs :
          StartFull(e, c, th)
    \/ ClearSuccess
    \/ Gate
    \/ RegisterTable
    \/ WipeDeleteFull
    \/ WipeDeleteWait
    \/ WipeTruncate
    \/ WipeCreate
    \/ Plan
    \/ ChunkerBegin
    \/ \E t \in Tables : ChunkerSingle(t)
    \/ \E t \in Tables : ChunkerStartTask(t)
    \/ \E t \in Tables : ChunkerEmpty(t)
    \/ \E t \in Tables : ChunkerBatchCreate(t)
    \/ \E t \in Tables : ChunkerUpdateWait(t)
    \/ ChunkerDone
    \/ \E t \in Tables : TableStart(t)
    \/ \E t \in Tables : \E c \in Chunks : ChunkExtract(t, c)
    \/ \E t \in Tables : \E c \in Chunks : ChunkApply(t, c)
    \/ \E t \in Tables : \E c \in Chunks : ChunkSuccess(t, c)
    \/ \E t \in Tables : \E c \in Chunks : ChunkFail(t, c)
    \/ \E t \in Tables : TableFinish(t)
    \/ \E t \in Tables : TableStartFail(t)
    \/ \E t \in Tables : \E c \in Chunks : ChunkWriteFail(t, c)
    \/ \E t \in Tables : TableReturnErr(t)
    \/ \E t \in Tables : TableFinishFail(t)
    \/ DriveDone
    \/ Crash

Spec == Init /\ [][Next]_vars

\* a step of a run of Full(): every step but the start of a run and the kill
RunStep ==
    \/ ClearSuccess
    \/ Gate
    \/ RegisterTable
    \/ WipeDeleteFull
    \/ WipeDeleteWait
    \/ WipeTruncate
    \/ WipeCreate
    \/ Plan
    \/ ChunkerBegin
    \/ \E t \in Tables : ChunkerSingle(t)
    \/ \E t \in Tables : ChunkerStartTask(t)
    \/ \E t \in Tables : ChunkerEmpty(t)
    \/ \E t \in Tables : ChunkerBatchCreate(t)
    \/ \E t \in Tables : ChunkerUpdateWait(t)
    \/ ChunkerDone
    \/ \E t \in Tables : TableStart(t)
    \/ \E t \in Tables : \E c \in Chunks : ChunkExtract(t, c)
    \/ \E t \in Tables : \E c \in Chunks : ChunkApply(t, c)
    \/ \E t \in Tables : \E c \in Chunks : ChunkSuccess(t, c)
    \/ \E t \in Tables : \E c \in Chunks : ChunkFail(t, c)
    \/ \E t \in Tables : TableFinish(t)
    \/ \E t \in Tables : TableStartFail(t)
    \/ \E t \in Tables : \E c \in Chunks : ChunkWriteFail(t, c)
    \/ \E t \in Tables : TableReturnErr(t)
    \/ \E t \in Tables : TableFinishFail(t)
    \/ DriveDone

\* the runs of Full() that are not killed
LiveNext ==
    \/ \E e \in (SUBSET Tables) \ {{}} : \E c \in BOOLEAN : \E th \in ThreadConfigs :
          StartFull(e, c, th)
    \/ RunStep

\* every call of a run returns: a run that can take a step takes one
LiveSpec == Init /\ [][LiveNext]_vars /\ WF_vars(RunStep)

\* every variable of the engine
engine == << waitSync, fullSync, applied, oracleSCN, runs, pc, result, exporters, cp,
             todo, wstep, waitSyncTables, partSyncTables, globalSCN, driving,
             kpc, tpc, fullMetas, cpc, cdone, threads, faults, chunkTask, ctx, outcome,
             prev, run >>

\* ------------------------------------------- Oracle.GetOracleTableRowsData
\* raw column values as the driver scans them into []byte: nil, or a text
NilRaw == [null |-> TRUE, text |-> ""]
Raw(text) == [null |-> FALSE, text |-> text]
RawValues == {NilRaw} \cup {Raw(x) : x \in {"", "07", "ab"}}
\* ScanType().String() of a column
ScanTypes == {"int64", "godror.Number", "string"}
\* the columns of the result set
ReaderColumns == 1 .. MaxColumns
SourceRows == [ReaderColumns -> RawValues]
SeqsUpTo(S, n) == UNION {[1 .. k -> S] : k \in 0 .. n}

\* a literal of a row tuple: its text, in quotes or not
Literal(text, quoted) == [text |-> text, quoted |-> quoted]
NullLiteral == Literal("NULL", FALSE)
EncodeError == [text |-> "error", quoted |-> FALSE, err |-> TRUE]
IsError(lit) == "err" \in DOMAIN lit

\* common.StrconvIntBitSize: the texts that parse as an integer
IsIntegerText(text) == text \in {"07"}
\* fmt.Sprintf("%v", r) of the parsed integer
IntegerText(text) == IF text = "07" THEN "7" ELSE text
\* decimal.NewFromString: the texts that parse as a decimal
IsDecimalText(text) == text \in {"07"}

\* only a nil value taken as NULL
IsNullRawNilOnly(raw) == raw.null
\* GetOracleTableRowsData, lines 167-170: nil and the empty string are NULL
IsNullRaw(raw) == raw.null \/ raw.text = ""

\* GetOracleTableRowsData, lines 167-225: the literal of one raw value
Encode(type, raw) ==
    IF IsNullRaw(raw) THEN NullLiteral
    ELSE IF type = "int64"
           THEN IF IsIntegerText(raw.text) THEN Literal(IntegerText(raw.text), FALSE)
                                           ELSE EncodeError
    ELSE IF type = "godror.Number"
           THEN IF IsDecimalText(raw.text) /\ IsIntegerText(raw.text)
                  THEN Literal(IntegerText(raw.text), FALSE)
                  ELSE EncodeError
    ELSE Literal(raw.text, TRUE)

\* GetOracleTableRowsData, lines 161-226: the literals of a row appended to rowsResult
RECURSIVE EncodeRow(_, _, _)
EncodeRow(acc, row, i) ==
    IF i > Len(columnTypes) THEN acc
    ELSE EncodeRow(Append(acc, Encode(columnTypes[i], row[i])), row, i + 1)

\* a batch closed one row late
BatchFullLate(tmp, size) == Len(tmp) = size + 1
\* GetOracleTableRowsData, line 234: the batch is full
BatchFull(tmp, size) == Len(tmp) = size

\* a call of GetOracleTableRowsData: the query, the scan types and the batch size
ReaderInit ==
    /\ EngineInit
    /\ OutcomeFree
    /\ SelectorIdle
    /\ resultSet \in SeqsUpTo(SourceRows, MaxRows)
    /\ columnTypes \in [ReaderColumns -> ScanTypes]
    /\ insertBatchSize \in 1 .. MaxBatchSize
    /\ cursor = 0
    /\ rowsResult = << >>
    /\ rowsTMP = << >>
    /\ batchResults = << >>
    /\ rdpc = "scan"

\* GetOracleTableRowsData, lines 155-239: rows.Next is true; one row is scanned, encoded
\* and added to the batch, or the function returns the error of a conversion
ReadRow ==
    /\ rdpc = "scan"
    /\ cursor < Len(resultSet)
    /\ cursor' = cursor + 1
    /\ LET literals == EncodeRow(rowsResult, resultSet[cursor + 1], 1)
           tmp == Append(rowsTMP, literals) IN
         IF \E i \in 1 .. Len(literals) : IsError(literals[i])
           THEN /\ rdpc' = "error"
                /\ UNCHANGED << rowsResult, rowsTMP, batchResults >>
           ELSE /\ rdpc' = rdpc
                /\ rowsResult' = << >>
                /\ IF BatchFull(tmp, insertBatchSize)
                      THEN /\ batchResults' = Append(batchResults, tmp)
                           /\ rowsTMP' = << >>
                      ELSE /\ batchResults' = batchResults
                           /\ rowsTMP' = tmp
    /\ UNCHANGED << engine, selector, resultSet, columnTypes, insertBatchSize >>

\* GetOracleTableRowsData, lines 241-250: rows.Next is false; the rows left over make
\* the last batch and the batches are returned
ReturnBatches ==
    /\ rdpc = "scan"
    /\ cursor = Len(resultSet)
    /\ batchResults' = IF Len(rowsTMP) > 0 THEN Append(batchResults, rowsTMP)
                                           ELSE batchResults
    /\ rdpc' = "returned"
    /\ UNCHANGED << engine, selector, resultSet, columnTypes, insertBatchSize, cursor,
                    rowsResult, rowsTMP >>

ReaderNext == ReadRow \/ ReturnBatches

ReaderSpec == ReaderInit /\ [][ReaderNext]_vars

\* ------------------------------------------- Migrate.adjustTableSelectColumn
\* DATA_TYPE and DATA_SCALE of a column; a TIMESTAMP column has a scale
ColumnKinds == {"NUMBER", "VARCHAR2", "XMLTYPE", "DATE", "INTERVAL"}
SourceColumns ==
    {[type |-> k, scale |-> 0] : k \in ColumnKinds}
    \cup {[type |-> "TIMESTAMP", scale |-> n] : n \in 0 .. MaxScale}

\* a projection fragment: the function applied to the column, its format and the
\* digits of the fractional seconds (0: the format has no .ff part)
Fragment(fn, format, ff) == [fn |-> fn, format |-> format, ff |-> ff]
PlainColumn == Fragment("", "", 0)

\* adjustTableSelectColumn, lines 846-853: the format of a TIMESTAMP column
TimestampFragment(dataScale) ==
    IF dataScale = 0 THEN Fragment("TO_CHAR", "yyyy-mm-dd hh24:mi:ss", 0)
    ELSE IF dataScale < 0 /\ dataScale <= 6
           THEN Fragment("TO_CHAR", "yyyy-mm-dd hh24:mi:ss", dataScale)
           ELSE Fragment("TO_CHAR", "yyyy-mm-dd hh24:mi:ss", 6)

\* adjustTableSelectColumn, lines 819-858: the fragment of one column
SelectColumn(col) ==
    IF col.type = "XMLTYPE" THEN Fragment("XMLSERIALIZE", "CLOB", 0)
    ELSE IF col.type = "DATE" THEN Fragment("TO_CHAR", "yyyy-MM-dd HH24:mi:ss", 0)
    ELSE IF col.type = "INTERVAL" THEN Fragment("TO_CHAR", "", 0)
    ELSE IF col.type = "TIMESTAMP" THEN TimestampFragment(col.scale)
    ELSE PlainColumn

\* a call of adjustTableSelectColumn on a table of up to MaxColumns columns
SelectInit ==
    /\ EngineInit
    /\ OutcomeFree
    /\ ReaderIdle
    /\ columnsINFO \in SeqsUpTo(SourceColumns, MaxColumns)
    /\ columnNames = << >>
    /\ spc = "loop"

\* adjustTableSelectColumn, lines 818-860: one iteration of the loop over the columns
AdjustColumn ==
    /\ spc = "loop"
    /\ Len(columnNames) < Len(columnsINFO)
    /\ columnNames' = Append(columnNames, SelectColumn(columnsINFO[Len(columnNames) + 1]))
    /\ UNCHANGED << engine, reader, columnsINFO, spc >>

\* adjustTableSelectColumn, line 862: the fragments are joined and returned
AdjustReturn ==
    /\ spc = "loop"
    /\ Len(columnNames) = Len(columnsINFO)
    /\ spc' = "returned"
    /\ UNCHANGED << engine, reader, columnsINFO, columnNames >>

SelectNext == AdjustColumn \/ AdjustReturn

SelectSpec == SelectInit /\ [][SelectNext]_vars

\* --------------------------------- a Chunker task under the context of the run

\* the contexts a database call is issued under: the context of the run (r.Ctx, o.Ctx
\* and the contexts derived from it) and context.Background()
CtxRun == "Ctx"
CtxBackground == "Background"
\* the calls of a Chunker task that drop a chunk task
DropCalls == {"dropOld", "drop"}
\* CloseOracleChunkTask, line 91, derives its context from context.Background(); the
\* other calls pass o.Ctx, r.Ctx or a context derived from o.Ctx
CallContext(call) == IF call \in DropCalls THEN CtxBackground ELSE CtxRun
\* a call under a cancelled context returns the error of the context
CtxDone(k) == k = CtxRun /\ ctx = "cancelled"

\* what the calls of a Chunker task leave alone
callFrame == << applied, oracleSCN, runs, pc, result, exporters, cp, todo, wstep,
                waitSyncTables, partSyncTables, globalSCN, driving, tpc, fullMetas, cpc,
                cdone, threads, faults, prev, run, outcome, reader, selector >>

\* the Chunker tasks that hold a slot of the group
ActiveCallers == {t \in Tables : kpc[t] \notin {"queued", "done", "error"}}

\* initWaitSyncTableRowID runs for tables whose row statistic is not 0; a chunk task
\* of an earlier run, with its chunk rows, may be left at the source
CallInit ==
    /\ ReaderIdle
    /\ OutcomeFree
    /\ SelectorIdle
    /\ waitSync = [t \in Tables |-> RegisterRow]
    /\ fullSync = [t \in Tables |-> [c \in Chunks |-> AbsentFull]]
    /\ applied = NoBatches
    /\ oracleSCN = 1
    /\ runs = 1
    /\ pc = "chunker"
    /\ result = "none"
    /\ exporters = Tables
    /\ cp = FALSE
    /\ todo = {}
    /\ wstep = "none"
    /\ waitSyncTables = Tables
    /\ partSyncTables = {}
    /\ globalSCN = 1
    /\ driving = {}
    /\ kpc = Queued(Tables)
    /\ tpc = NoTasks
    /\ fullMetas = NoMetas
    /\ cpc = NoChunkTasks
    /\ cdone = NoBatches
    /\ threads \in ThreadConfigs
    /\ faults = 0
    /\ chunkTask \in [Tables -> {"none", "chunked"}]
    /\ ctx = "live"
    /\ prev = NoPrev
    /\ run = FreshRun

\* the context of the run is cancelled
Cancel ==
    /\ ctx = "live"
    /\ ctx' = "cancelled"
    /\ UNCHANGED << meta, chunkTask, kpc, callFrame >>

\* a call returned the error of its context: the Chunker task returns it
CallError(t) ==
    /\ kpc' = [kpc EXCEPT ![t] = "error"]
    /\ UNCHANGED << meta, chunkTask >>

\* StartOracleChunkCreateTask, lines 41-50: the chunk rows of the task name are counted
CallCountTask(t) ==
    /\ kpc[t] = "queued"
    /\ SlotFree(Cardinality(ActiveCallers), TaskThreads)
    /\ IF CtxDone(CallContext("count"))
          THEN CallError(t)
          ELSE /\ kpc' = [kpc EXCEPT ![t] = IF NeedCloseTask(chunkTask[t])
                                              THEN "dropOld" ELSE "create"]
               /\ UNCHANGED << meta, chunkTask >>
    /\ UNCHANGED << ctx, callFrame >>

\* StartOracleChunkCreateTask, lines 46-50, CloseOracleChunkTask, lines 90-103: the
\* task of the earlier run is dropped
CallDropOldTask(t) ==
    /\ kpc[t] = "dropOld"
    /\ IF CtxDone(CallContext("dropOld"))
          THEN CallError(t)
          ELSE /\ chunkTask' = [chunkTask EXCEPT ![t] = "none"]
               /\ kpc' = [kpc EXCEPT ![t] = "create"]
               /\ UNCHANGED meta
    /\ UNCHANGED << ctx, callFrame >>

\* StartOracleChunkCreateTask, lines 52-60: CREATE_TASK
CallCreateTask(t) ==
    /\ kpc[t] = "create"
    /\ IF CtxDone(CallContext("create")) \/ CreateTaskFails(chunkTask[t])
          THEN CallError(t)
          ELSE /\ chunkTask' = [chunkTask EXCEPT ![t] = "created"]
               /\ kpc' = [kpc EXCEPT ![t] = "chunks"]
               /\ UNCHANGED meta
    /\ UNCHANGED << ctx, callFrame >>

\* StartOracleCreateChunkByRowID, lines 63-78: CREATE_CHUNKS_BY_ROWID
CallCreateChunks(t) ==
    /\ kpc[t] = "chunks"
    /\ IF CtxDone(CallContext("chunks"))
          THEN CallError(t)
          ELSE /\ chunkTask' = [chunkTask EXCEPT ![t] = ChunkedTask(t)]
               /\ kpc' = [kpc EXCEPT ![t] = "list"]
               /\ UNCHANGED meta
    /\ UNCHANGED << ctx, callFrame >>

\* GetOracleTableChunksByRowID, lines 80-88: the chunk list is read
CallGetChunks(t) ==
    /\ kpc[t] = "list"
    /\ IF CtxDone(CallContext("list"))
          THEN CallError(t)
          ELSE /\ kpc' = [kpc EXCEPT ![t] = IF RowIDChunks(t) = {} THEN "single"
                                                                   ELSE "insert"]
               /\ UNCHANGED << meta, chunkTask >>
    /\ UNCHANGED << ctx, callFrame >>

\* initWaitSyncTableRowID, lines 681-720: empty chunk list, one chunk '1 = 1' written
\* in one transaction; the task returns
CallCreateSingle(t) ==
    /\ kpc[t] = "single"
    /\ IF CtxDone(CallContext("single"))
          THEN CallError(t)
          ELSE /\ CreateFullSyncMetaAndUpdateWaitSyncMeta(t, WholeTable,
                      NewFullSyncRow(t, globalSCN), WaitSyncPatch(globalSCN, 1))
               /\ kpc' = [kpc EXCEPT ![t] = "done"]
               /\ UNCHANGED chunkTask
    /\ UNCHANGED << ctx, callFrame >>

\* initWaitSyncTableRowID, lines 722-744: BatchCreateFullSyncMeta
CallBatchCreate(t) ==
    /\ kpc[t] = "insert"
    /\ IF CtxDone(CallContext("insert"))
          THEN CallError(t)
          ELSE /\ fullSync' = [fullSync EXCEPT ![t] = [c \in Chunks |->
                                  IF c \in RowIDChunks(t) THEN NewFullSyncRow(t, globalSCN)
                                                          ELSE fullSync[t][c]]]
               /\ kpc' = [kpc EXCEPT ![t] = "update"]
               /\ UNCHANGED << waitSync, chunkTask >>
    /\ UNCHANGED << ctx, callFrame >>

\* initWaitSyncTableRowID, lines 746-763: UpdateWaitSyncMeta
CallUpdateWait(t) ==
    /\ kpc[t] = "update"
    /\ IF CtxDone(CallContext("update"))
          THEN CallError(t)
          ELSE /\ waitSync' = UpdateWaitSyncMeta(waitSync, t,
                                  WaitSyncPatch(globalSCN, Cardinality(RowIDChunks(t))))
               /\ kpc' = [kpc EXCEPT ![t] = "drop"]
               /\ UNCHANGED << fullSync, chunkTask >>
    /\ UNCHANGED << ctx, callFrame >>

\* initWaitSyncTableRowID, lines 764-766, CloseOracleChunkTask, lines 90-103: the task
\* is dropped and the Chunker task returns
CallDropTask(t) ==
    /\ kpc[t] = "drop"
    /\ IF CtxDone(CallContext("drop"))
          THEN CallError(t)
          ELSE /\ chunkTask' = [chunkTask EXCEPT ![t] = "none"]
               /\ kpc' = [kpc EXCEPT ![t] = "done"]
               /\ UNCHANGED meta
    /\ UNCHANGED << ctx, callFrame >>

CallNext ==
    \/ Cancel
    \/ \E t \in Tables : CallCountTask(t)
    \/ \E t \in Tables : CallDropOldTask(t)
    \/ \E t \in Tables : CallCreateTask(t)
    \/ \E t \in Tables : CallCreateChunks(t)
    \/ \E t \in Tables : CallGetChunks(t)
    \/ \E t \in Tables : CallCreateSingle(t)
    \/ \E t \in Tables : CallBatchCreate(t)
    \/ \E t \in Tables : CallUpdateWait(t)
    \/ \E t \in Tables : CallDropTask(t)

CallSpec == CallInit /\ [][CallNext]_vars

\* --------------------------- one run with the outcome of every chunk fixed

\* an outcome for every chunk the Chunker creates: it is extracted and applied, or
\* extracting or applying it fails
Outcomes ==
    {o \in [Tables -> [Chunks -> {"ok", "error"}]] :
        \A t \in Tables : \A c \in Chunks \ SourceChunks(t) : o[t][c] = "ok"}

\* the first run of Full(), the outcome of every chunk fixed beforehand
OrderInit ==
    /\ EngineInit
    /\ ReaderIdle
    /\ SelectorIdle
    /\ outcome \in Outcomes

\* fullPartSyncTable, line 437: a batch of the chunk is applied; a chunk that fails
\* does so before its last batch is in
OrderChunkApply(t, c) ==
    /\ outcome[t][c] = "ok" \/ cdone[t][c] + 1 < Batches(t)
    /\ ChunkApply(t, c)
\* fullPartSyncTable, lines 458-470: a chunk whose outcome is success
OrderChunkSuccess(t, c) == outcome[t][c] = "ok" /\ ChunkSuccess(t, c)
\* fullPartSyncTable, lines 398-456: a chunk whose outcome is an error
OrderChunkFail(t, c) == outcome[t][c] = "error" /\ ChunkFail(t, c)

\* Full is called once
OrderStart(e, c, th) == runs = 0 /\ StartFull(e, c, th)

\* one run that is not killed, on a metadata store that fails no call
OrderNext ==
    \/ \E e \in (SUBSET Tables) \ {{}} : \E c \in BOOLEAN : \E th \in ThreadConfigs :
          OrderStart(e, c, th)
    \/ ClearSuccess
    \/ Gate
    \/ RegisterTable
    \/ WipeDeleteFull
    \/ WipeDeleteWait
    \/ WipeTruncate
    \/ WipeCreate
    \/ Plan
    \/ ChunkerBegin
    \/ \E t \in Tables : ChunkerSingle(t)
    \/ \E t \in Tables : ChunkerStartTask(t)
    \/ \E t \in Tables : ChunkerEmpty(t)
    \/ \E t \in Tables : ChunkerBatchCreate(t)
    \/ \E t \in Tables : ChunkerUpdateWait(t)
    \/ ChunkerDone
    \/ \E t \in Tables : TableStart(t)
    \/ \E t \in Tables : \E c \in Chunks : ChunkExtract(t, c)
    \/ \E t \in Tables : \E c \in Chunks : OrderChunkApply(t, c)
    \/ \E t \in Tables : \E c \in Chunks : OrderChunkSuccess(t, c)
    \/ \E t \in Tables : \E c \in Chunks : OrderChunkFail(t, c)
    \/ \E t \in Tables : TableFinish(t)
    \/ DriveDone

OrderSpec == OrderInit /\ [][OrderNext]_vars

\* ------------------------------------------------------------- properties
\* the current run resumes a run that was configured alike
SameTableSet == exporters = prev.exporters
Returned(r) == pc = "done" /\ result = r

\* C1: a run with enable_checkpoint on that resumes a run interrupted while chunks
\* were extracted or applied, and returns nil without a chunk error, leaves the rows
\* of every chunk in the destination exactly once.
C1_ExactlyOnceAfterResume ==
    (/\ Returned("ok") /\ cp /\ ~run.chunkErr
     /\ prev.end = "crash" /\ prev.inDrive /\ SameTableSet)
    => \A t \in Tables :
         /\ \A c \in Chunks : applied[t][c] <= Batches(t)
         /\ waitSync[t].status = TaskStatusSuccess
              => \A c \in SourceChunks(t) : applied[t][c] = Batches(t)

\* C2: a run with enable_checkpoint on that follows a crashed run with
\* enable_checkpoint on and the same table set, and passes the gate, does not abort
\* with 'checkpoint inconsistent'.
C2_ResumePassesPlanner ==
    ~(/\ Returned("inconsistent") /\ cp
      /\ prev.end = "crash" /\ prev.cp /\ SameTableSet)

\* C3: a run with enable_checkpoint on that follows a run with enable_checkpoint on
\* and the same table set, which returned nil without a chunk failure, applies no
\* batch, truncates nothing and creates no FullSync row.
SecondRun == cp /\ prev.end = "ok" /\ prev.cp /\ ~prev.chunkErr /\ SameTableSet
C3_ResumeIdempotent ==
    (pc # "idle" /\ SecondRun)
    => (~run.applied /\ run.truncated = {} /\ ~run.created)
\* the second run has returned nil and the first one had migrated rows
C3_Witness ==
    /\ SecondRun /\ Returned("ok")
    /\ \E t \in Tables : \A c \in SourceChunks(t) : applied[t][c] = Batches(t)

Rank(s) == IF s = TaskStatusWaiting THEN 0 ELSE IF s = TaskStatusRunning THEN 1 ELSE 2
Terminal(s) == s \in {TaskStatusSuccess, TaskStatusFailed}
\* C4: the status of a FullSync row never moves backwards, a SUCCESS or FAILED row is
\* never updated again, and a chunk task only ever works on a row that is WAITING,
\* so a chunk is written SUCCESS at most once.
C4_RowsMonotone ==
    \A t \in Tables : \A c \in Chunks :
        (fullSync[t][c].status # Absent /\ fullSync'[t][c].status # Absent)
        => /\ Rank(fullSync[t][c].status) <= Rank(fullSync'[t][c].status)
           /\ Terminal(fullSync[t][c].status) => fullSync'[t][c] = fullSync[t][c]
C4_TasksOnWaiting ==
    \A t \in Tables : \A c \in Chunks :
        cpc[t][c] \in {"queued", "apply"} => fullSync[t][c].status = TaskStatusWaiting
C4_StatusMonotone == [][C4_RowsMonotone]_vars /\ []C4_TasksOnWaiting
\* a resumed table: one chunk is SUCCESS from the interrupted run, another is applied
C4_Witness ==
    /\ prev.end = "crash"
    /\ \E t \in Tables : \E c1, c2 \in Chunks :
          /\ fullSync[t][c1].status = TaskStatusSuccess
          /\ c1 \notin fullMetas[t]
          /\ cpc[t][c2] = "apply"

\* C5: all FullSync rows of a table carry one snapshot id, which is the snapshot id
\* of its WaitSync row once the Chunker has finished the table.
C5_SnapshotUniform ==
    \A t \in Tables :
        /\ \A c1, c2 \in FullRows(t) : fullSync[t][c1].scn = fullSync[t][c2].scn
        /\ (kpc[t] = "done" \/ waitSync[t].scn # TaskTableDefaultSourceGlobalSCN)
             => \A c \in FullRows(t) : fullSync[t][c].scn = waitSync[t].scn
        /\ (kpc[t] = "done" /\ tpc[t] # "done")
             => FullRows(t) # {} /\ waitSync[t].scn = globalSCN
\* a table chunked into several rows at a snapshot later than the first one
C5_Witness ==
    \E t \in Tables :
        /\ kpc[t] = "done"
        /\ Cardinality(FullRows(t)) >= 2
        /\ waitSync[t].scn > 1

\* C6: every chunk extracted in one run is read at the same snapshot id.
C6_GlobalSnapshot == Cardinality(run.reads) <= 1

\* C7: a run that the gate aborts has issued no write.
C7_GateNoWrite == Returned("gate") => ~run.wrote

\* C8: in a run with enable_checkpoint off, once a FullSync row is created no WaitSync
\* or FullSync row of a prior run remains and the destination table of every
\* configured table has been truncated.
C8_WipeBeforeInsert ==
    (~cp /\ run.created)
    => /\ run.stale = {}
       /\ run.staleFull = {}
       /\ \A t \in exporters : TargetTableName(t) \in run.truncated

\* C9: in a run with enable_checkpoint off, after the wipe every configured table has
\* a WaitSync row in WAITING with the default snapshot and chunk_total, and is
\* selected as a wait table.
C9_WipeLeavesWaiting ==
    (~cp /\ pc = "plan")
    => /\ \A t \in exporters : waitSync[t] = RegisterRow
       /\ exporters \subseteq DetailWaitSyncMetaWaiting

\* C10: a table task that has finished without error left either WaitSync SUCCESS,
\* chunk_failed = 0 and no FullSync row, or WaitSync FAILED, chunk_failed > 0 and
\* every FullSync row; the rows are deleted in the step that writes SUCCESS, which
\* is taken only when no row is FAILED or WAITING.
TableOK(t) ==
    /\ waitSync[t].status = TaskStatusSuccess
    /\ waitSync[t].failed = 0
    /\ FullRows(t) = {}
TableKO(t) ==
    /\ waitSync[t].status = TaskStatusFailed
    /\ waitSync[t].failed > 0
    /\ FullRows(t) # {}
    /\ Cardinality(FullRows(t)) = waitSync[t].total
C10_Finished ==
    \A t \in Tables : tpc[t] = "done" => (TableOK(t) /\ ~TableKO(t)) \/ (TableKO(t) /\ ~TableOK(t))
C10_Completion ==
    \A t \in Tables :
        /\ (waitSync[t].status # TaskStatusSuccess /\ waitSync'[t].status = TaskStatusSuccess)
             => /\ FullRowsByStatus(t, TaskStatusFailed) = {}
                /\ FullRowsByStatus(t, TaskStatusWaiting) = {}
                /\ FullRows(t) # {}
                /\ FullRows(t)' = {}
        /\ (waitSync[t].status # TaskStatusFailed /\ waitSync'[t].status = TaskStatusFailed)
             => fullSync'[t] = fullSync[t]
        /\ (FullRows(t) # {} /\ FullRows(t)' = {} /\ pc \in {"part", "drive"})
             => waitSync'[t].status = TaskStatusSuccess
C10_CountConsistency == []C10_Finished /\ [][C10_Completion]_vars
\* in one run a table has finished SUCCESS and another one FAILED
C10_Witness ==
    \E t, u \in Tables :
        /\ tpc[t] = "done" /\ TableOK(t)
        /\ tpc[u] = "done" /\ TableKO(u)

\* C11: a WaitSync row in SUCCESS has chunk_success equal to chunk_total, also when the
\* table was resumed with some chunks already SUCCESS.
C11_SuccessCountsTotal ==
    \A t \in Tables :
        waitSync[t].status = TaskStatusSuccess => waitSync[t].succ = waitSync[t].total

\* C12: a WaitSync row in FAILED has chunk_failed equal to the number of FAILED FullSync
\* rows of the table and chunk_success equal to chunk_total - chunk_failed, and the
\* step that writes FAILED deletes no FullSync row.
C12_FailedRow ==
    \A t \in Tables :
        waitSync[t].status = TaskStatusFailed
        => /\ waitSync[t].failed = Cardinality(FullRowsByStatus(t, TaskStatusFailed))
           /\ waitSync[t].succ = waitSync[t].total - waitSync[t].failed
C12_FailedStep ==
    \A t \in Tables :
        (waitSync[t].status # TaskStatusFailed /\ waitSync'[t].status = TaskStatusFailed)
        => FullRows(t)' = FullRows(t)
C12_FailedCounts == []C12_FailedRow /\ [][C12_FailedStep]_vars

\* C13: in every metadata state, for every table with a WaitSync row, chunk_total is
\* the number of FullSync rows of the table and chunk_success + chunk_failed is at
\* most chunk_total.
C13_TotalIsRowCount ==
    \A t \in Tables :
        HasWait(t)
        => /\ waitSync[t].total = Cardinality(FullRows(t))
           /\ waitSync[t].succ + waitSync[t].failed <= waitSync[t].total

\* C14: a chunk whose failure is recorded FAILED returns no error to the inner group:
\* the step leaves every other chunk task and the table task as they are, a table task
\* returns an error only when a metadata call failed, and a table task that has passed
\* the count step has every chunk it loaded in SUCCESS or FAILED.
C14_FailStep ==
    \A t \in Tables : \A c \in Chunks :
        (fullSync[t][c].status = TaskStatusWaiting /\ fullSync'[t][c].status = TaskStatusFailed)
        => /\ cpc'[t][c] = "done"
           /\ \A d \in Chunks \ {c} : cpc'[t][d] = cpc[t][d] /\ fullSync'[t][d] = fullSync[t][d]
           /\ tpc' = tpc
C14_Counted ==
    \A t \in Tables :
        /\ tpc[t] = "error" => faults > 0
        /\ tpc[t] = "done"
             => \A c \in fullMetas[t] :
                   /\ cpc[t][c] = "done"
                   /\ fullSync[t][c].status \in {TaskStatusSuccess, TaskStatusFailed, Absent}
C14_ChunkErrorIsolated == [][C14_FailStep]_vars /\ []C14_Counted
\* a table task has passed the count step with one chunk FAILED and a sibling SUCCESS
C14_Witness ==
    \E t \in Tables : \E c1, c2 \in fullMetas[t] :
        /\ tpc[t] = "done"
        /\ fullSync[t][c1].status = TaskStatusFailed
        /\ fullSync[t][c2].status = TaskStatusSuccess
        /\ applied[t][c2] = Batches(t)

\* C15: once a table task has returned an error, no sibling table task is started and
\* no chunk of a sibling table is started or applied.
C15_NoStepAfterError ==
    (\E t \in Tables : tpc[t] = "error")
    => \A u \in Tables :
         /\ tpc'[u] = "running" => tpc[u] = "running"
         /\ \A c \in Chunks :
              /\ cpc'[u][c] = "apply" => cpc[u][c] = "apply"
              /\ applied'[u][c] <= applied[u][c]
C15_ErrorCancelsSiblings == [][C15_NoStepAfterError]_vars

\* C16: at most table-threads table tasks, at most sql-threads chunk tasks of one table,
\* at most table-threads x sql-threads chunk tasks overall and at most task-threads
\* Chunker tasks are in progress.
C16_BoundedConcurrency ==
    /\ Cardinality(RunningTables) <= TableThreads
    /\ \A t \in Tables : Cardinality(ActiveChunks(t)) <= SQLThreads
    /\ Cardinality({tc \in Tables \X Chunks : cpc[tc[1]][tc[2]] = "apply"})
          <= TableThreads * SQLThreads
    /\ Cardinality(ActiveChunkers) <= TaskThreads
\* with every limit 1, a table and a chunk wait for the slot another one holds
C16_Witness ==
    /\ TableThreads = 1 /\ SQLThreads = 1
    /\ \E t, u \in Tables : \E c1, c2 \in Chunks :
          /\ tpc[t] = "running" /\ tpc[u] = "queued"
          /\ cpc[t][c1] = "apply" /\ cpc[t][c2] = "queued"

\* C17: a FullSync row in FAILED is never extracted or applied again: no chunk task
\* works on it, no batch of it is applied, and with enable_checkpoint on the row is
\* left as it is.
C17_FailedStaysFailed ==
    \A t \in Tables : \A c \in Chunks :
        fullSync[t][c].status = TaskStatusFailed
        => /\ cpc'[t][c] \notin {"queued", "apply"}
           /\ applied'[t][c] <= applied[t][c]
           /\ cp' => fullSync'[t][c] = fullSync[t][c]
C17_NoRetry == [][C17_FailedStaysFailed]_vars
\* a later run with enable_checkpoint on drives a table that has a FAILED chunk
C17_Witness ==
    /\ cp /\ runs = 2 /\ prev.end = "crash"
    /\ \E t \in Tables : \E c1, c2 \in Chunks :
          /\ fullSync[t][c1].status = TaskStatusFailed
          /\ c1 \notin fullMetas[t]
          /\ cpc[t][c2] = "done"
          /\ fullSync[t][c2].status = TaskStatusSuccess

\* C18: a run with enable_checkpoint on truncates no destination table, deletes a
\* WaitSync row only when it is SUCCESS, and deletes the FullSync rows of a table only
\* in the step that completes the table.
C18_NoTruncate == cp => (run.truncated = {} /\ wstep = "none")
C18_Delete ==
    cp => \A t \in Tables :
            /\ (HasWait(t) /\ ~HasWait(t)') => waitSync[t].status = TaskStatusSuccess
            /\ \A c \in Chunks :
                 (fullSync[t][c].status # Absent /\ fullSync'[t][c].status = Absent)
                 => /\ waitSync[t].status = TaskStatusRunning
                    /\ waitSync'[t].status = TaskStatusSuccess
                    /\ FullRowsByStatus(t, TaskStatusSuccess) = FullRows(t)
            /\ \A c \in Chunks : applied'[t][c] >= applied[t][c]
C18_CheckpointKeeps == []C18_NoTruncate /\ [][C18_Delete]_vars
\* a run with enable_checkpoint on has dropped the SUCCESS row of a table that is no
\* longer configured and has completed a table
C18_Witness ==
    /\ cp /\ Returned("ok") /\ run.applied
    /\ \E t \in prev.exporters \ exporters : ~HasWait(t) /\ applied[t][WholeTable] > 0

\* C19: when a table in RUNNING has no WAITING FullSync row, or a number of FullSync
\* rows other than its chunk_total, the planner returns 'checkpoint inconsistent', and
\* a run that returned it has set no table RUNNING, started no Chunker task and
\* extracted or applied no chunk.
C19_Unresumable ==
    \E t \in Tables :
        /\ waitSync[t].status = TaskStatusRunning
        /\ \/ FullRowsByStatus(t, TaskStatusWaiting) = {}
           \/ Cardinality(FullRows(t)) # waitSync[t].total
C19_PlanStep ==
    (pc = "plan" /\ pc' # "plan" /\ C19_Unresumable)
    => /\ pc' = "done"
       /\ result' \in {"inconsistent", "crash"}
       /\ UNCHANGED << meta, applied >>
C19_Aborted ==
    Returned("inconsistent")
    => /\ kpc = NoTasks /\ tpc = NoTasks /\ cpc = NoChunkTasks
       /\ ~run.created /\ ~run.applied /\ run.reads = {}
C19_ResumabilityCheck == [][C19_PlanStep]_vars /\ []C19_Aborted
\* the planner has aborted on a RUNNING table whose FullSync rows are gone
C19_Witness == Returned("inconsistent") /\ C19_Unresumable

\* C20: no Chunker task and no table or chunk task of a wait table begins before every
\* part table task has finished, and none begins when the part phase returned an error.
C20_Untouched(t) ==
    /\ kpc[t] = "none"
    /\ tpc[t] = "none"
    /\ \A c \in Chunks : cpc[t][c] = "none"
C20_PartBeforeWait ==
    /\ pc \in {"chunkerInit", "chunker", "drive"} => \A t \in partSyncTables : tpc[t] = "done"
    /\ pc = "part" => \A t \in waitSyncTables : C20_Untouched(t)
    /\ (Returned("error") /\ GroupError(partSyncTables))
         => /\ \A t \in waitSyncTables : C20_Untouched(t)
            /\ ~run.created
\* the part phase has returned an error while a wait table was selected
C20_Witness ==
    /\ Returned("error") /\ GroupError(partSyncTables)
    /\ waitSyncTables # {}

\* C21: with enable_checkpoint on, a configured table whose WaitSync row is SUCCESS is
\* not set RUNNING, chunked, extracted or applied and its row is left as it is; the
\* cleanup step deletes the SUCCESS rows of the tables that are not configured and no
\* row of another status.
C21_Skip ==
    \A t \in Tables :
        (waitSync[t].status = TaskStatusSuccess /\ cp' /\ t \in exporters')
        => /\ waitSync'[t] = waitSync[t]
           /\ fullSync'[t] = fullSync[t]
           /\ applied'[t] = applied[t]
           /\ tpc'[t] \in {tpc[t], "none"}
           /\ kpc'[t] \in {kpc[t], "none"}
           /\ \A c \in Chunks : cpc'[t][c] \in {cpc[t][c], "none"}
C21_ClearStep ==
    (cp /\ pc = "clear" /\ pc' = "gate")
    => \A t \in Tables :
         /\ (waitSync[t].status = TaskStatusSuccess /\ t \notin exporters) => ~HasWait(t)'
         /\ waitSync[t].status # TaskStatusSuccess => waitSync'[t] = waitSync[t]
         /\ (waitSync[t].status = TaskStatusSuccess /\ t \in exporters)
              => waitSync'[t] = waitSync[t]
C21_SuccessSkip == [][C21_Skip /\ C21_ClearStep]_vars
\* the second run has planned: a configured table is SUCCESS and skipped, the row of a
\* table that is no longer configured is gone
C21_Witness ==
    /\ cp /\ runs = 2 /\ pc = "done" /\ result = "ok" /\ ~run.applied
    /\ \E t \in exporters : waitSync[t].status = TaskStatusSuccess /\ tpc[t] = "none"
    /\ \E u \in prev.exporters \ exporters : ~HasWait(u) /\ applied[u][WholeTable] > 0

\* C22: for a table whose row statistic is 0 or whose row-id chunk list is empty, one
\* step of the Chunker inserts the single FullSync row '1 = 1' in WAITING and sets
\* chunk_total 1 with zero counters; driven without a failed chunk, the table ends
\* SUCCESS with chunk_success 1.
C22_ChunkStep ==
    \A t \in Tables :
        (RowIDChunks(t) = {} /\ kpc[t] \in {"queued", "task"} /\ kpc'[t] = "done")
        => /\ FullRows(t) = {}
           /\ waitSync[t].total = TaskTableDefaultSplitChunkNums
           /\ FullRows(t)' = {WholeTable}
           /\ fullSync'[t][WholeTable].status = TaskStatusWaiting
           /\ waitSync'[t].total = 1
           /\ waitSync'[t].succ = 0
           /\ waitSync'[t].failed = 0
           /\ waitSync'[t].status = TaskStatusWaiting
C22_Driven ==
    \A t \in Tables :
        (RowIDChunks(t) = {} /\ tpc[t] = "done" /\ FullRowsByStatus(t, TaskStatusFailed) = {})
        => /\ waitSync[t].status = TaskStatusSuccess
           /\ waitSync[t].succ = 1
           /\ waitSync[t].total = 1
C22_TinyTable == [][C22_ChunkStep]_vars /\ []C22_Driven
\* a table with an empty chunk list was chunked through its chunk task and driven
C22_Witness ==
    \E t \in Tables :
        /\ RowIDChunks(t) = {} /\ chunkTask[t] = "created" /\ kpc[t] = "done"
        /\ tpc[t] = "done" /\ waitSync[t].status = TaskStatusSuccess
        /\ applied[t][WholeTable] = Batches(t)

\* C23: once the Chunker has finished a table whose row-id chunk list has n >= 1
\* predicates, the table has n FullSync rows, one per predicate, all WAITING, and its
\* WaitSync row is WAITING with chunk_total n and zero counters.
C23_MultiChunk ==
    \A t \in Tables :
        (pc = "chunker" /\ kpc[t] = "done" /\ RowIDChunks(t) # {})
        => /\ FullRows(t) = RowIDChunks(t)
           /\ \A c \in FullRows(t) : fullSync[t][c].status = TaskStatusWaiting
           /\ waitSync[t].status = TaskStatusWaiting
           /\ waitSync[t].total = Cardinality(RowIDChunks(t))
           /\ waitSync[t].succ = 0
           /\ waitSync[t].failed = 0
\* the Chunker has finished a table of several chunks and still works on another one
C23_Witness ==
    /\ pc = "chunker"
    /\ \E t, u \in Tables :
          /\ kpc[t] = "done" /\ Cardinality(RowIDChunks(t)) >= 2
          /\ kpc[u] \in {"queued", "task"}

\* C24: no table has FullSync rows while its WaitSync row still has the default
\* snapshot id and the default chunk_total.
C24_ChunksAtomic ==
    \A t \in Tables :
        FullRows(t) # {}
        => ~(/\ HasWait(t)
             /\ waitSync[t].scn = TaskTableDefaultSourceGlobalSCN
             /\ waitSync[t].total = TaskTableDefaultSplitChunkNums)

\* C25: starting the chunk task of a table over a task of the same name creates the
\* new task, and when the Chunker finishes a table for which it created a chunk task
\* that task no longer exists on the source.
C25_TaskStep ==
    \A t \in Tables :
        /\ (kpc[t] = "queued" /\ kpc'[t] \in {"task", "error"} /\ chunkTask[t] # "none")
             => kpc'[t] = "task"
        /\ (kpc[t] \in {"task", "inserted"} /\ kpc'[t] = "done") => chunkTask'[t] = "none"
C25_TaskLifecycle == [][C25_TaskStep]_vars

\* C26: with enable_checkpoint off, every destination table that is truncated is the
\* target table of a configured source table.
C26_TruncatesTarget ==
    ~cp => run.truncated \subseteq {TargetTableName(t) : t \in exporters}

\* C27: when the write of a chunk's status fails, the chunk task returns the error, the
\* table task returns it once every chunk task of the table has returned, the WaitSync
\* row stays RUNNING, and Full returns an error.
C27_WriteFailure ==
    \A t \in Tables : \A c \in Chunks :
        cpc[t][c] = "error"
        => /\ tpc[t] \in {"running", "error"}
           /\ waitSync[t].status = TaskStatusRunning
           /\ tpc[t] = "error" => \A d \in fullMetas[t] : TaskReturned(cpc[t][d])
           /\ pc = "done" => result = "error"
\* Full has returned the error of a chunk whose sibling was written SUCCESS
C27_Witness ==
    /\ Returned("error")
    /\ \E t \in Tables : \E c, d \in fullMetas[t] :
          /\ cpc[t][c] = "error"
          /\ cpc[t][d] = "done" /\ fullSync[t][d].status = TaskStatusSuccess

\* the batches returned so far and the batch being filled, as one list of row tuples
RECURSIVE Flatten(_)
Flatten(batches) ==
    IF batches = << >> THEN << >> ELSE Head(batches) \o Flatten(Tail(batches))
\* the tuple a source row is to be encoded as, one literal per column
ExpectedTuple(row) == [i \in ReaderColumns |-> Encode(columnTypes[i], row[i])]
CeilDiv(n, b) == (n + b - 1) \div b

\* C28: a result of n rows read with batch size b >= 1 yields ceil(n/b) batches, all
\* but the last of b row tuples and the last of 1 to b; the tuples are the n rows, each
\* once, in source order; no row yields no batch.
C28_Batching ==
    rdpc = "returned"
    => LET n == Len(resultSet)
           b == insertBatchSize
           k == Len(batchResults) IN
         /\ k = CeilDiv(n, b)
         /\ \A i \in 1 .. k - 1 : Len(batchResults[i]) = b
         /\ k > 0 => Len(batchResults[k]) \in 1 .. b
         /\ Flatten(batchResults) = [i \in 1 .. n |-> ExpectedTuple(resultSet[i])]
\* three rows were returned in a full batch and a last batch of one row
C28_Witness ==
    /\ rdpc = "returned" /\ Len(resultSet) = 3 /\ insertBatchSize = 2
    /\ Len(batchResults) = 2 /\ Len(batchResults[2]) = 1

\* C29: in every row tuple built, a column whose raw value is nil or the empty string
\* holds the literal NULL without quotes, whatever the scan type of the column, and
\* the tuple has one literal per column, in column order.
C29_NullLaw ==
    LET tuples == IF rdpc = "returned" THEN Flatten(batchResults)
                                       ELSE Flatten(batchResults) \o rowsTMP IN
      \A k \in 1 .. Len(tuples) :
          /\ Len(tuples[k]) = Len(columnTypes)
          /\ \A i \in ReaderColumns :
                (resultSet[k][i].null \/ resultSet[k][i].text = "")
                => tuples[k][i] = NullLiteral
\* a row with a nil and an empty string follows a row without NULL, in numeric columns
C29_Witness ==
    /\ rdpc = "returned" /\ Len(resultSet) >= 2
    /\ columnTypes[1] = "int64" /\ columnTypes[2] = "godror.Number"
    /\ resultSet[1][1] = Raw("07") /\ resultSet[1][2] = Raw("07")
    /\ resultSet[2][1] = NilRaw /\ resultSet[2][2] = Raw("")
    /\ Flatten(batchResults)[2] = << NullLiteral, NullLiteral >>

\* C30: the fragment of a TIMESTAMP column of scale s has no fractional part when
\* s = 0, .ff<s> when 1 <= s <= 6 and .ff6 when s > 6.
C30_TimestampProjection ==
    \A i \in 1 .. Len(columnNames) :
        columnsINFO[i].type = "TIMESTAMP"
        => LET s == columnsINFO[i].scale IN
             /\ columnNames[i].fn = "TO_CHAR"
             /\ columnNames[i].format = "yyyy-mm-dd hh24:mi:ss"
             /\ columnNames[i].ff = IF s = 0 THEN 0 ELSE IF s <= 6 THEN s ELSE 6

\* C31: once the context of the run is cancelled, no database call of a Chunker task
\* starts or completes successfully: a step taken after the cancellation changes
\* neither the chunk task at the source nor the metadata, and moves a Chunker task
\* nowhere but to the return of an error.
C31_CancelStep ==
    ctx = "cancelled" =>
        /\ chunkTask' = chunkTask
        /\ meta' = meta
        /\ \A t \in Tables : kpc'[t] \in {kpc[t], "error"}
C31_CancelPropagation == [][C31_CancelStep]_vars

\* C32: the planner returns 'checkpoint inconsistent' whenever the number of RUNNING
\* tables differs from the number of tables that have a WAITING FullSync row, even when
\* every RUNNING table passes the per-table check. Consequently, while a table has
\* WaitSync status WAITING and WAITING FullSync rows, a run with enable_checkpoint on
\* stays before the planner with that table still in this state, or has aborted: it
\* sets no table RUNNING, starts no Chunker task, truncates nothing and extracts or
\* applies no chunk.
C32_CountMismatch ==
    Cardinality(QueryWaitSyncMetaByPartTask)
        # Cardinality(DistinctFullSyncMetaTableNameSByTaskStatus(TaskStatusWaiting))
C32_PlanStep ==
    (pc = "plan" /\ pc' # "plan" /\ C32_CountMismatch)
    => /\ pc' = "done"
       /\ result' \in {"inconsistent", "crash"}
       /\ UNCHANGED << meta, applied >>
C32_Stuck ==
    \E t \in Tables : /\ waitSync[t].status = TaskStatusWaiting
                      /\ FullRowsByStatus(t, TaskStatusWaiting) # {}
C32_BeforePlan == pc \in {"clear", "gate", "register", "plan"}
C32_StuckStep ==
    (/\ C32_Stuck
     /\ cp'
     /\ pc \in {"idle", "done"} \/ C32_BeforePlan
     /\ pc' # "idle")
    => /\ \/ C32_BeforePlan' /\ C32_Stuck'
          \/ pc' = "done" /\ result' \in {"inconsistent", "gate", "crash"}
       /\ UNCHANGED << fullSync, applied >>
       /\ run'.truncated = {} /\ ~run'.created /\ ~run'.applied /\ run'.reads = {}
       /\ kpc' = NoTasks /\ tpc' = NoTasks /\ cpc' = NoChunkTasks
       /\ \A t \in Tables : waitSync'[t].status = TaskStatusRunning
                              => waitSync[t].status = TaskStatusRunning
C32_CountCheck == [][C32_PlanStep /\ C32_StuckStep]_vars
\* the planner has aborted a run with enable_checkpoint on although the one RUNNING
\* table passes the per-table check: another table is WAITING with WAITING chunks
C32_Witness ==
    /\ Returned("inconsistent") /\ cp
    /\ QueryWaitSyncMetaByPartTask # {} /\ PanicTables = {}
    /\ C32_Stuck

\* C33: the counters of a WaitSync row are never negative, also for a resumed table
\* that had FAILED FullSync rows left by an interrupted run: chunk_success >= 0 and
\* chunk_failed >= 0 in every reachable state.
C33_CountersNonNegative ==
    \A t \in Tables : waitSync[t].succ >= 0 /\ waitSync[t].failed >= 0

\* C34: when every call returns and the run is not killed, a run of Full() that has
\* started returns; and when it has returned nil, every table it selected as a part
\* table or as a wait table has WaitSync status SUCCESS or FAILED and no FullSync row
\* in WAITING.
C34_Running == pc \notin {"idle", "done"}
C34_Settled ==
    Returned("ok") =>
        \A t \in partSyncTables \cup waitSyncTables :
            /\ waitSync[t].status \in {TaskStatusSuccess, TaskStatusFailed}
            /\ FullRowsByStatus(t, TaskStatusWaiting) = {}
C34_Termination == (C34_Running ~> pc = "done") /\ []C34_Settled
\* a run that drove a part table and a wait table has returned nil
C34_Witness ==
    /\ Returned("ok")
    /\ partSyncTables # {} /\ waitSyncTables # {}

\* C35: with the outcome of every chunk fixed and no failure of the metadata store,
\* the WaitSync status and counters of every table and the status of every FullSync
\* row at the return of the run are the same under every interleaving of the table
\* tasks and chunk tasks: they are a function of the configuration of the run and of
\* the outcomes alone.
C35_Errors(t) == {c \in SourceChunks(t) : outcome[t][c] = "error"}
C35_Driven(t) == cp /\ t \in exporters
C35_FinalWait(t) ==
    LET n == Cardinality(SourceChunks(t))
        e == Cardinality(C35_Errors(t)) IN
      IF ~C35_Driven(t)
        THEN IF t \in exporters THEN WipeRow ELSE AbsentWait
        ELSE [status |-> IF e = 0 THEN TaskStatusSuccess ELSE TaskStatusFailed,
              scn |-> oracleSCN, total |-> n, succ |-> n - e, failed |-> e]
C35_FinalFull(t, c) ==
    IF ~C35_Driven(t) \/ C35_Errors(t) = {} \/ c \notin SourceChunks(t)
      THEN Absent
      ELSE IF c \in C35_Errors(t) THEN TaskStatusFailed ELSE TaskStatusSuccess
C35_Independent ==
    pc = "done" =>
        /\ result = "ok"
        /\ \A t \in Tables :
              /\ waitSync[t] = C35_FinalWait(t)
              /\ \A c \in Chunks : fullSync[t][c].status = C35_FinalFull(t, c)
\* two table tasks and two chunk tasks could run at a time; a chunk of the one table
\* failed and the other table went through
C35_Witness ==
    /\ pc = "done" /\ cp /\ exporters = Tables
    /\ TableThreads = MaxThreads /\ SQLThreads = MaxThreads
    /\ Cardinality(C35_Errors("A")) = 1
    /\ waitSync["A"].status = TaskStatusFailed
    /\ waitSync["B"].status = TaskStatusSuccess

====
